---- MODULE Spec2Model ----
(***************************************************************************)
(* Model of the bulk submitter (bulk_create_issues.py): one run of main()  *)
(* against a directory of materialized issue files, an environment, an     *)
(* operator at the prompt and a remote tracker.                            *)
(*                                                                         *)
(* Text is modelled as sequences of character codes, so that lower() and   *)
(* the lexicographic order used by sorted() are computed, not assumed.     *)
(***************************************************************************)
EXTENDS Integers, Sequences, FiniteSets, TLC

VARIABLES
    requestsInstalled, \* whether "import requests" succeeds
    dirExists,         \* whether github-issues exists
    envToken,          \* value of GITHUB_TOKEN in the environment
    envChanges,        \* number of changes made to GITHUB_TOKEN by others
    envReads,          \* number of times main() has read GITHUB_TOKEN
    disk,              \* file -> content, for the files of github-issues
    writes,            \* number of changes made to disk by other writers
    reads,             \* the paths main() has opened, in order
    pc,                \* position of main()
    token,             \* local variable token
    issue_files,       \* local variable issue_files (sorted paths)
    idx,               \* position of the running for loop in issue_files
    previewed,         \* lines printed by the preview loop
    response,          \* what input() returned
    issue_data,        \* local variable issue_data of the submission loop
    created,           \* local variable created
    failed,            \* local variable failed
    requests,          \* create-requests issued so far (POSTs)
    answers,           \* what each create-request came back with
    tracker,           \* issues that exist on the remote tracker
    sleeps,            \* number of time.sleep(1) calls made
    summary,           \* the summary printed after the loop
    exitCode,          \* exit status of the process
    cause,             \* which line ended the process
    mat,               \* the materializer scripts: the run in progress, if
                       \* any, and the runs completed
    past               \* the earlier runs of main(): the files each one
                       \* issued requests for, and whether it reported

vars == <<requestsInstalled, dirExists, envToken, envChanges, envReads, disk,
          writes, reads, pc, token,
          issue_files, idx, previewed, response, issue_data, created, failed,
          requests, answers, tracker, sleeps, summary, exitCode, cause, mat,
          past>>

-----------------------------------------------------------------------------
(* Bounds *)

MaxFiles == 3      \* most files in the directory at the start of a run
MaxRuns == 3       \* most runs of the materializer scripts
MaxWrites == 1     \* most changes other processes make to the directory and
                   \* to the environment
MaxReruns == 1     \* most runs of main() after the first one
MaxRunFiles == 2   \* most files in the directory where main() is run again
                   \* and where its termination is checked

-----------------------------------------------------------------------------
(* Text *)

\* "phase", "-issue", ".json" as character codes
PhaseText == <<112, 104, 97, 115, 101>>
IssueText == <<45, 105, 115, 115, 117, 101>>
JsonExt == <<46, 106, 115, 111, 110>>

\* lower() left out: the answer is compared as typed
LowerLeftOut(s) == s

\* str.lower() on ASCII text
Lower(s) == [i \in DOMAIN s |-> IF s[i] \in 65..90 THEN s[i] + 32 ELSE s[i]]

RECURSIVE Digits(_)
\* decimal digits of a natural number, as f"{n}" prints them
Digits(n) == IF n < 10 THEN <<48 + n>> ELSE Digits(n \div 10) \o <<48 + (n % 10)>>

\* f"{number:02d}"
Pad2(n) == IF n < 10 THEN <<48>> \o Digits(n) ELSE Digits(n)

\* f"phase{phase}-issue{number:02d}.json"
FileName(f) == PhaseText \o Digits(f.phase) \o IssueText \o Pad2(f.seq) \o JsonExt

RECURSIVE LexLess(_, _)
\* Python's < on str: code point by code point, a proper prefix is smaller
LexLess(a, b) ==
    IF b = <<>> THEN FALSE
    ELSE IF a = <<>> THEN TRUE
    ELSE IF a[1] # b[1] THEN a[1] < b[1]
    ELSE LexLess(Tail(a), Tail(b))

\* Path.__lt__ for two paths of the same directory
PathLess(f, g) == LexLess(FileName(f), FileName(g))

RECURSIVE sorted(_)
\* sorted() over a set of paths
sorted(S) ==
    IF S = {} THEN <<>>
    ELSE LET m == CHOOSE x \in S : \A y \in S \ {x} : PathLess(x, y)
         IN <<m>> \o sorted(S \ {m})

-----------------------------------------------------------------------------
(* The environment *)

\* the files a directory may hold, by the (phase, sequence) of their names
CandidateFiles ==
    {[phase |-> 1, seq |-> 1], [phase |-> 1, seq |-> 2],
     [phase |-> 2, seq |-> 1], [phase |-> 10, seq |-> 1]}

\* contents of a file: a record with a title, or something json.load or
\* data['title'] fails on
Titles == {"T1", "T2"}
NotJson == "<not json>"
NoTitle == "<no title>"
Contents == Titles \cup {NotJson, NoTitle}
InitContents == {"T1", NotJson, NoTitle}

\* the title not looked up: only open() and json.load() must succeed
ReadableWithoutTitle(d, f) == f \in DOMAIN d /\ d[f] # NotJson

\* open(issue_file) and json.load(f) succeed and data['title'] exists
Readable(d, f) == f \in DOMAIN d /\ d[f] \in Titles

NoToken == "<unset>"
TokenValues == {NoToken, "", "ghp_A"}

\* what the operator may type: y, Y, n, empty, yes, " y"
Inputs == {<<121>>, <<89>>, <<110>>, <<>>, <<121, 101, 115>>, <<32, 121>>}
NoResponse == <<0>>
EndOfInput == <<4>>

-----------------------------------------------------------------------------
(* The remote tracker *)

FirstNumber == 100
Messages == {"validation failed", "rate limited"}
JSONDecodeError == "Expecting value: line 1 column 1 (char 0)"
ConnectionError == "Connection aborted."
UnknownError == "Unknown error"
NoNumber == -1

\* html_url of issue n
HtmlUrl(n) == <<"https://github.com/krisapplegate/kiro-simple-tracker/issues", n>>

\* What requests.post may come back with when the tracker's next free issue
\* number is n: a response (status, body) or an exception.  A body is an
\* object (json = TRUE) or does not parse.
HttpResponse(status, json, number, hasMessage, message) ==
    [kind |-> "http", status |-> status, json |-> json, number |-> number,
     hasMessage |-> hasMessage, message |-> message]
TransportFailure ==
    [kind |-> "exc", status |-> 0, json |-> FALSE, number |-> NoNumber,
     hasMessage |-> FALSE, message |-> ConnectionError]
Outcomes(n) ==
    {HttpResponse(201, TRUE, n, FALSE, ""),
     HttpResponse(201, FALSE, n, FALSE, ""),
     HttpResponse(422, TRUE, NoNumber, FALSE, ""),
     HttpResponse(422, FALSE, NoNumber, FALSE, ""),
     TransportFailure}
    \cup {HttpResponse(422, TRUE, NoNumber, TRUE, m) : m \in Messages}

\* the tracker created an issue for the request
Accepted(r) == r.kind = "http" /\ r.status = 201

-----------------------------------------------------------------------------
(* create_issue: what it returns for what requests.post came back with *)

Result(success, issue_number, result) ==
    [success |-> success, issue_number |-> issue_number, result |-> result]

\* the status check left out: any body that parses counts as created
create_issue_AnyStatus(r) ==
    IF r.kind = "exc" THEN Result(FALSE, NoNumber, r.message)
    ELSE IF r.json THEN Result(TRUE, r.number, HtmlUrl(r.number))
         ELSE Result(FALSE, NoNumber, JSONDecodeError)

\* the tracker's message left out: every rejection reads "Unknown error"
create_issue_NoMessage(r) ==
    IF r.kind = "exc" THEN Result(FALSE, NoNumber, r.message)
    ELSE IF r.status = 201
         THEN IF r.json THEN Result(TRUE, r.number, HtmlUrl(r.number))
              ELSE Result(FALSE, NoNumber, JSONDecodeError)
         ELSE IF r.json THEN Result(FALSE, NoNumber, UnknownError)
              ELSE Result(FALSE, NoNumber, JSONDecodeError)

\* the exception's text left out: every exception reads "Unknown error"
create_issue_NoExceptionText(r) ==
    IF r.kind = "exc" THEN Result(FALSE, NoNumber, UnknownError)
    ELSE IF r.status = 201
         THEN IF r.json THEN Result(TRUE, r.number, HtmlUrl(r.number))
              ELSE Result(FALSE, NoNumber, UnknownError)
         ELSE IF r.json
              THEN Result(FALSE, NoNumber,
                          IF r.hasMessage THEN r.message ELSE UnknownError)
              ELSE Result(FALSE, NoNumber, UnknownError)

\* the body of a 201 not parsed: every 201 counts as created
create_issue_UnparsedCreated(r) ==
    IF r.kind = "exc" THEN Result(FALSE, NoNumber, r.message)
    ELSE IF r.status = 201
         THEN Result(TRUE, r.number, HtmlUrl(r.number))
         ELSE IF r.json
              THEN Result(FALSE, NoNumber,
                          IF r.hasMessage THEN r.message ELSE UnknownError)
              ELSE Result(FALSE, NoNumber, JSONDecodeError)

create_issue(r) ==
    IF r.kind = "exc" THEN Result(FALSE, NoNumber, r.message)
    ELSE IF r.status = 201
         THEN IF r.json THEN Result(TRUE, r.number, HtmlUrl(r.number))
              ELSE Result(FALSE, NoNumber, JSONDecodeError)
         ELSE IF r.json
              THEN Result(FALSE, NoNumber,
                          IF r.hasMessage THEN r.message ELSE UnknownError)
              ELSE Result(FALSE, NoNumber, JSONDecodeError)

-----------------------------------------------------------------------------
(* The materializer scripts, create_github_issues.py and                   *)
(* generate_all_issues.py.  Where they run, the directory is keyed by the  *)
(* text of the file names, and a file holds the documents written to it.   *)

\* the issue definitions of create_github_issues.py, by phase and number
issues ==
    <<[phase |-> 1, number |-> 1], [phase |-> 1, number |-> 2],
      [phase |-> 1, number |-> 3], [phase |-> 1, number |-> 4],
      [phase |-> 1, number |-> 5], [phase |-> 1, number |-> 6],
      [phase |-> 1, number |-> 7], [phase |-> 2, number |-> 8],
      [phase |-> 2, number |-> 9], [phase |-> 2, number |-> 10],
      [phase |-> 2, number |-> 11], [phase |-> 2, number |-> 12],
      [phase |-> 2, number |-> 13], [phase |-> 2, number |-> 14]>>

\* generate_all_issues.py starting one issue early, at phase 2, issue 14
additional_issues_FromIssue14 ==
    <<[phase |-> 2, number |-> 14], [phase |-> 3, number |-> 16],
      [phase |-> 3, number |-> 17], [phase |-> 3, number |-> 18],
      [phase |-> 3, number |-> 19], [phase |-> 3, number |-> 20],
      [phase |-> 3, number |-> 21], [phase |-> 4, number |-> 22],
      [phase |-> 4, number |-> 23], [phase |-> 4, number |-> 24],
      [phase |-> 4, number |-> 25]>>

\* the issue definitions of generate_all_issues.py
additional_issues ==
    <<[phase |-> 3, number |-> 15], [phase |-> 3, number |-> 16],
      [phase |-> 3, number |-> 17], [phase |-> 3, number |-> 18],
      [phase |-> 3, number |-> 19], [phase |-> 3, number |-> 20],
      [phase |-> 3, number |-> 21], [phase |-> 4, number |-> 22],
      [phase |-> 4, number |-> 23], [phase |-> 4, number |-> 24],
      [phase |-> 4, number |-> 25]>>

Scripts == {"create_github_issues", "generate_all_issues"}
IssuesOf(s) == IF s = "create_github_issues" THEN issues ELSE additional_issues

\* the name with the number left out: f"phase{phase}.json"
IssueFilePhaseOnly(d) == PhaseText \o Digits(d.phase) \o JsonExt

\* filename = f"github-issues/phase{phase}-issue{number:02d}.json"
IssueFile(d) == FileName([phase |-> d.phase, seq |-> d.number])

\* full_body: the body, the Metadata trailer and, in generate_all_issues.py,
\* the Reference trailer
FullBody(s, d) ==
    <<"body", d.number, "Metadata", "effort", d.number, "dependencies", d.number>>
    \o (IF s = "generate_all_issues"
        THEN <<"Reference", "Issue", d.number, "Phase", d.phase>>
        ELSE <<>>)

\* issue_data, as json.dump writes it
IssueData(s, d) ==
    [title |-> <<"title", d.number>>, body |-> FullBody(s, d),
     labels |-> <<"labels", d.number>>]

\* what the directory may hold before the first run: nothing, a stale file
\* under a name either script writes, or a file neither writes
Stale == <<[title |-> <<"title", 0>>, body |-> <<"stale">>,
           labels |-> <<"labels", 0>>]>>
StartDisks ==
    {<<>>,
     [n \in {IssueFile(issues[1])} |-> Stale],
     [n \in {IssueFile(additional_issues[1])} |-> Stale],
     [n \in {FileName([phase |-> 9, seq |-> 99])} |-> Stale]}

MatIdle == [pc |-> "idle", script |-> "", i |-> 0, done |-> <<>>,
            start |-> [dirExists |-> FALSE, disk |-> <<>>]]

MatInit ==
    /\ dirExists \in BOOLEAN
    /\ disk \in StartDisks
    /\ dirExists \/ disk = <<>>
    /\ mat = [MatIdle EXCEPT !.start = [dirExists |-> dirExists, disk |-> disk]]
    /\ requestsInstalled = TRUE
    /\ envToken = NoToken
    /\ envChanges = 0
    /\ envReads = 0
    /\ writes = 0
    /\ reads = <<>>
    /\ pc = "import"
    /\ token = NoToken
    /\ issue_files = <<>>
    /\ idx = 0
    /\ previewed = <<>>
    /\ response = NoResponse
    /\ issue_data = ""
    /\ created = <<>>
    /\ failed = <<>>
    /\ requests = <<>>
    /\ answers = <<>>
    /\ tracker = <<>>
    /\ sleeps = 0
    /\ summary = <<>>
    /\ exitCode = 0
    /\ cause = ""
    /\ past = <<>>

\* the variables of the submitter, which the scripts leave alone
submitterVars ==
    <<requestsInstalled, envToken, envChanges, envReads, writes, reads, pc,
      token, issue_files, idx, previewed, response, issue_data, created,
      failed, requests, answers, tracker, sleeps, summary, exitCode, cause,
      past>>

\* a script is started
MatStart ==
    /\ mat.pc = "idle"
    /\ Len(mat.done) < MaxRuns
    /\ \E s \in Scripts : mat' = [mat EXCEPT !.pc = "makedirs", !.script = s]
    /\ UNCHANGED <<dirExists, disk, submitterVars>>

\* os.makedirs('github-issues', exist_ok=True)
MakeDirs ==
    /\ mat.pc = "makedirs"
    /\ dirExists' = TRUE
    /\ mat' = [mat EXCEPT !.pc = "loop", !.i = 1]
    /\ UNCHANGED <<disk, submitterVars>>

\* the file written at name n with document doc: open(filename, 'w')
\* truncates, json.dump writes
Written(n, doc) ==
    [m \in DOMAIN disk \cup {n} |-> IF m = n THEN <<doc>> ELSE disk[m]]

\* open(filename, 'a'): the document is added to what the file holds
WriteIssueAppend ==
    /\ mat.pc = "loop"
    /\ mat.i <= Len(IssuesOf(mat.script))
    /\ LET d == IssuesOf(mat.script)[mat.i]
           n == IssueFile(d)
       IN disk' = [m \in DOMAIN disk \cup {n} |->
                      IF m # n THEN disk[m]
                      ELSE IF n \in DOMAIN disk
                           THEN Append(disk[n], IssueData(mat.script, d))
                           ELSE <<IssueData(mat.script, d)>>]
    /\ mat' = [mat EXCEPT !.i = mat.i + 1]
    /\ UNCHANGED <<dirExists, submitterVars>>

\* one iteration of the generation loop
WriteIssue ==
    /\ mat.pc = "loop"
    /\ mat.i <= Len(IssuesOf(mat.script))
    /\ LET d == IssuesOf(mat.script)[mat.i]
       IN disk' = Written(IssueFile(d), IssueData(mat.script, d))
    /\ mat' = [mat EXCEPT !.i = mat.i + 1]
    /\ UNCHANGED <<dirExists, submitterVars>>

\* the loop is over and the script ends
MatFinish ==
    /\ mat.pc = "loop"
    /\ mat.i > Len(IssuesOf(mat.script))
    /\ mat' = [mat EXCEPT !.pc = "idle", !.script = "", !.i = 0,
                          !.done = Append(mat.done,
                                          [script |-> mat.script, disk |-> disk])]
    /\ UNCHANGED <<dirExists, disk, submitterVars>>

MatNext ==
    \/ MatStart
    \/ MakeDirs
    \/ WriteIssue
    \/ MatFinish

MatSpec == MatInit /\ [][MatNext]_vars

-----------------------------------------------------------------------------
(* main() *)

\* a check that misses the unset variable: token == ""
TokenMissingOnlyEmpty(t) == t = ""

\* "if not token"
TokenMissing(t) == t = NoToken \/ t = ""

\* a check on the first letter only: response.lower().startswith('y')
AffirmativePrefix(r) == r # <<>> /\ Lower(r)[1] = 121

\* "response.lower() != 'y'" is false
Affirmative(r) == Lower(r) = <<121>>

\* sys.exit(code), or an uncaught exception (status 1)
Exit(code, why) ==
    /\ pc' = "exited"
    /\ exitCode' = code
    /\ cause' = why

Init ==
    /\ requestsInstalled \in BOOLEAN
    /\ dirExists \in BOOLEAN
    /\ envToken \in TokenValues
    /\ \E S \in SUBSET CandidateFiles :
          /\ Cardinality(S) <= MaxFiles
          /\ dirExists \/ S = {}
          /\ disk \in [S -> InitContents]
    /\ envChanges = 0
    /\ envReads = 0
    /\ writes = 0
    /\ reads = <<>>
    /\ pc = "import"
    /\ token = NoToken
    /\ issue_files = <<>>
    /\ idx = 0
    /\ previewed = <<>>
    /\ response = NoResponse
    /\ issue_data = ""
    /\ created = <<>>
    /\ failed = <<>>
    /\ requests = <<>>
    /\ answers = <<>>
    /\ tracker = <<>>
    /\ sleeps = 0
    /\ summary = <<>>
    /\ exitCode = 0
    /\ cause = ""
    /\ past = <<>>
    /\ mat = MatIdle

\* lines 12-17
ImportRequests ==
    /\ pc = "import"
    /\ IF requestsInstalled
       THEN pc' = "checkdir" /\ UNCHANGED <<exitCode, cause>>
       ELSE Exit(1, "import")
    /\ UNCHANGED <<mat, past>>
    /\ UNCHANGED <<envChanges, envReads, reads,
                   requestsInstalled, dirExists, envToken, disk, writes, token,
                   issue_files, idx, previewed, response, issue_data, created,
                   failed, requests, answers, tracker, sleeps, summary>>

\* the directory check left out
CheckDirSkipped ==
    /\ pc = "checkdir"
    /\ pc' = "token"
    /\ UNCHANGED <<mat, past>>
    /\ UNCHANGED <<envChanges, envReads, reads,
                   requestsInstalled, dirExists, envToken, disk, writes, token,
                   issue_files, idx, previewed, response, issue_data, created,
                   failed, requests, answers, tracker, sleeps, summary,
                   exitCode, cause>>

\* lines 69-72
CheckDir ==
    /\ pc = "checkdir"
    /\ IF dirExists
       THEN pc' = "token" /\ UNCHANGED <<exitCode, cause>>
       ELSE Exit(1, "nodir")
    /\ UNCHANGED <<mat, past>>
    /\ UNCHANGED <<envChanges, envReads, reads,
                   requestsInstalled, dirExists, envToken, disk, writes, token,
                   issue_files, idx, previewed, response, issue_data, created,
                   failed, requests, answers, tracker, sleeps, summary>>

\* line 75 and get_github_token
GetToken ==
    /\ pc = "token"
    /\ IF TokenMissing(envToken)
       THEN Exit(1, "notoken") /\ UNCHANGED token
       ELSE pc' = "discover" /\ token' = envToken /\ UNCHANGED <<exitCode, cause>>
    /\ envReads' = envReads + 1
    /\ UNCHANGED <<mat, past>>
    /\ UNCHANGED <<envChanges, reads,
                   requestsInstalled, dirExists, envToken, disk, writes,
                   issue_files, idx, previewed, response, issue_data, created,
                   failed, requests, answers, tracker, sleeps, summary>>

\* a record of what was created is kept: files whose issue is on the
\* tracker are left out
DiscoverSkipsCreated ==
    /\ pc = "discover"
    /\ issue_files' = sorted({f \in DOMAIN disk :
                                \A i \in DOMAIN tracker : tracker[i].file # FileName(f)})
    /\ idx' = 1
    /\ pc' = "preview"
    /\ UNCHANGED <<mat, past>>
    /\ UNCHANGED <<envChanges, envReads, reads,
                   requestsInstalled, dirExists, envToken, disk, writes, token,
                   previewed, response, issue_data, created, failed, requests,
                   answers, tracker, sleeps, summary, exitCode, cause>>

\* line 80
Discover ==
    /\ pc = "discover"
    /\ issue_files' = sorted(DOMAIN disk)
    /\ idx' = 1
    /\ pc' = "preview"
    /\ UNCHANGED <<mat, past>>
    /\ UNCHANGED <<envChanges, envReads, reads,
                   requestsInstalled, dirExists, envToken, disk, writes, token,
                   previewed, response, issue_data, created, failed, requests,
                   answers, tracker, sleeps, summary, exitCode, cause>>

\* lines 87, 106: open(issue_file), which fails on a file that is gone
Opened(f) == IF f \in DOMAIN disk THEN Append(reads, f) ELSE reads

\* lines 86-89, one iteration
Preview ==
    /\ pc = "preview"
    /\ idx <= Len(issue_files)
    /\ reads' = Opened(issue_files[idx])
    /\ IF Readable(disk, issue_files[idx])
       THEN /\ previewed' = Append(previewed,
                                   <<FileName(issue_files[idx]), disk[issue_files[idx]]>>)
            /\ idx' = idx + 1
            /\ UNCHANGED <<pc, exitCode, cause>>
       ELSE Exit(1, "uncaught") /\ UNCHANGED <<previewed, idx>>
    /\ UNCHANGED <<mat, past>>
    /\ UNCHANGED <<envChanges, envReads,
                   requestsInstalled, dirExists, envToken, disk, writes, token,
                   issue_files, response, issue_data, created, failed, requests,
                   answers, tracker, sleeps, summary>>

\* line 92: the preview loop is over and input() blocks
ShowPrompt ==
    /\ pc = "preview"
    /\ idx > Len(issue_files)
    /\ pc' = "prompt"
    /\ UNCHANGED <<mat, past>>
    /\ UNCHANGED <<envChanges, envReads, reads,
                   requestsInstalled, dirExists, envToken, disk, writes, token,
                   issue_files, idx, previewed, response, issue_data, created,
                   failed, requests, answers, tracker, sleeps, summary,
                   exitCode, cause>>

\* cancelling reported as a failure
AnswerCancelFails ==
    /\ pc = "prompt"
    /\ \E r \in Inputs :
          /\ response' = r
          /\ IF Affirmative(r)
             THEN pc' = "loop" /\ idx' = 1 /\ UNCHANGED <<exitCode, cause>>
             ELSE Exit(1, "cancelled") /\ UNCHANGED idx
    /\ created' = <<>>
    /\ failed' = <<>>
    /\ UNCHANGED <<mat, past>>
    /\ UNCHANGED <<envChanges, envReads, reads,
                   requestsInstalled, dirExists, envToken, disk, writes, token,
                   issue_files, previewed, issue_data, requests, answers,
                   tracker, sleeps, summary>>

\* lines 92-100: input() returns r
Answer ==
    /\ pc = "prompt"
    /\ \E r \in Inputs :
          /\ response' = r
          /\ IF Affirmative(r)
             THEN pc' = "loop" /\ idx' = 1 /\ UNCHANGED <<exitCode, cause>>
             ELSE Exit(0, "cancelled") /\ UNCHANGED idx
    /\ created' = <<>>
    /\ failed' = <<>>
    /\ UNCHANGED <<mat, past>>
    /\ UNCHANGED <<envChanges, envReads, reads,
                   requestsInstalled, dirExists, envToken, disk, writes, token,
                   issue_files, previewed, issue_data, requests, answers,
                   tracker, sleeps, summary>>

\* line 92: input() raises EOFError
AnswerEOF ==
    /\ pc = "prompt"
    /\ response' = EndOfInput
    /\ Exit(1, "uncaught")
    /\ UNCHANGED <<mat, past>>
    /\ UNCHANGED <<envChanges, envReads, reads,
                   requestsInstalled, dirExists, envToken, disk, writes, token,
                   issue_files, idx, previewed, issue_data, created, failed,
                   requests, answers, tracker, sleeps, summary>>

\* the file is removed once it has been loaded
LoadIssueConsume ==
    /\ pc = "loop"
    /\ idx <= Len(issue_files)
    /\ reads' = Opened(issue_files[idx])
    /\ IF issue_files[idx] \in DOMAIN disk /\ disk[issue_files[idx]] # NotJson
       THEN /\ issue_data' = disk[issue_files[idx]]
            /\ disk' = [g \in DOMAIN disk \ {issue_files[idx]} |-> disk[g]]
            /\ pc' = "post"
            /\ UNCHANGED <<exitCode, cause>>
       ELSE Exit(1, "uncaught") /\ UNCHANGED <<issue_data, disk>>
    /\ UNCHANGED <<mat, past>>
    /\ UNCHANGED <<envChanges, envReads,
                   requestsInstalled, dirExists, envToken, writes, token,
                   issue_files, idx, previewed, response, created, failed,
                   requests, answers, tracker, sleeps, summary>>

\* a record that cannot be loaded is passed over: try/except around the
\* load, with "continue"
LoadIssueSkipsUnreadable ==
    /\ pc = "loop"
    /\ idx <= Len(issue_files)
    /\ reads' = Opened(issue_files[idx])
    /\ IF issue_files[idx] \in DOMAIN disk /\ disk[issue_files[idx]] # NotJson
       THEN /\ issue_data' = disk[issue_files[idx]]
            /\ pc' = "post"
            /\ UNCHANGED <<idx, failed>>
       ELSE /\ idx' = idx + 1
            /\ failed' = Append(failed, <<FileName(issue_files[idx]), NotJson>>)
            /\ UNCHANGED <<issue_data, pc>>
    /\ UNCHANGED <<mat, past>>
    /\ UNCHANGED <<envChanges, envReads, exitCode, cause,
                   requestsInstalled, dirExists, envToken, disk, writes, token,
                   issue_files, previewed, response, created,
                   requests, answers, tracker, sleeps, summary>>

\* lines 105-107: the next iteration opens and parses its file
LoadIssue ==
    /\ pc = "loop"
    /\ idx <= Len(issue_files)
    /\ reads' = Opened(issue_files[idx])
    /\ IF issue_files[idx] \in DOMAIN disk /\ disk[issue_files[idx]] # NotJson
       THEN /\ issue_data' = disk[issue_files[idx]]
            /\ pc' = "post"
            /\ UNCHANGED <<exitCode, cause>>
       ELSE Exit(1, "uncaught") /\ UNCHANGED issue_data
    /\ UNCHANGED <<mat, past>>
    /\ UNCHANGED <<envChanges, envReads,
                   requestsInstalled, dirExists, envToken, disk, writes, token,
                   issue_files, idx, previewed, response, created, failed,
                   requests, answers, tracker, sleeps, summary>>

\* the token looked up again for every request
PostRereadsEnv ==
    /\ pc = "post"
    /\ requests' = Append(requests,
                          [file |-> FileName(issue_files[idx]), token |-> envToken,
                           data |-> issue_data])
    /\ pc' = "await"
    /\ UNCHANGED <<mat, past>>
    /\ UNCHANGED <<envChanges, envReads, reads,
                   requestsInstalled, dirExists, envToken, disk, writes, token,
                   issue_files, idx, previewed, response, issue_data, created,
                   failed, answers, tracker, sleeps, summary, exitCode, cause>>

\* lines 111, 43-50: requests.post sends the create-request
Post ==
    /\ pc = "post"
    /\ requests' = Append(requests,
                          [file |-> FileName(issue_files[idx]), token |-> token,
                           data |-> issue_data])
    /\ pc' = "await"
    /\ UNCHANGED <<mat, past>>
    /\ UNCHANGED <<envChanges, envReads, reads,
                   requestsInstalled, dirExists, envToken, disk, writes, token,
                   issue_files, idx, previewed, response, issue_data, created,
                   failed, answers, tracker, sleeps, summary, exitCode, cause>>

\* all-or-nothing: the first failure ends the run
RecordOrAbort(r) ==
    LET res == create_issue(r)
        name == FileName(issue_files[idx])
    IN IF res.success
       THEN /\ created' = Append(created, <<name, res.issue_number, res.result>>)
            /\ pc' = "sleep"
            /\ UNCHANGED <<failed, exitCode, cause>>
       ELSE /\ failed' = Append(failed, <<name, res.result>>)
            /\ Exit(1, "failed")
            /\ UNCHANGED created

\* newest first: created.insert(0, ...) in place of created.append(...)
RecordNewestFirst(r) ==
    LET res == create_issue(r)
        name == FileName(issue_files[idx])
    IN /\ IF res.success
          THEN /\ created' = <<<<name, res.issue_number, res.result>>>> \o created
               /\ UNCHANGED failed
          ELSE /\ failed' = Append(failed, <<name, res.result>>)
               /\ UNCHANGED created
       /\ pc' = "sleep"
       /\ UNCHANGED <<exitCode, cause>>

\* assignment in place of append: failed = [(name, result)]
RecordLastFailureOnly(r) ==
    LET res == create_issue(r)
        name == FileName(issue_files[idx])
    IN /\ IF res.success
          THEN /\ created' = Append(created, <<name, res.issue_number, res.result>>)
               /\ UNCHANGED failed
          ELSE /\ failed' = <<<<name, res.result>>>>
               /\ UNCHANGED created
       /\ pc' = "sleep"
       /\ UNCHANGED <<exitCode, cause>>

\* lines 111-120: main records what create_issue returned and goes on to
\* the pause
Record(r) ==
    LET res == create_issue(r)
        name == FileName(issue_files[idx])
    IN /\ IF res.success
          THEN /\ created' = Append(created, <<name, res.issue_number, res.result>>)
               /\ UNCHANGED failed
          ELSE /\ failed' = Append(failed, <<name, res.result>>)
               /\ UNCHANGED created
       /\ pc' = "sleep"
       /\ UNCHANGED <<exitCode, cause>>

\* all-or-nothing with rollback: a failure removes the issues created so far
ReturnWithRollback ==
    /\ pc = "await"
    /\ \E r \in Outcomes(FirstNumber + Len(tracker)) :
          /\ answers' = Append(answers, r)
          /\ tracker' = IF Accepted(r)
                        THEN Append(tracker, [number |-> r.number,
                                              file |-> requests[Len(requests)].file,
                                              data |-> requests[Len(requests)].data])
                        ELSE <<>>
          /\ Record(r)
    /\ UNCHANGED <<mat, past>>
    /\ UNCHANGED <<envChanges, envReads, reads,
                   requestsInstalled, dirExists, envToken, disk, writes, token,
                   issue_files, idx, previewed, response, issue_data, requests,
                   sleeps, summary>>

\* lines 50-60, 111-120: requests.post comes back with r (the tracker having
\* created the issue when it answers 201), create_issue returns and main
\* records the result
Return ==
    /\ pc = "await"
    /\ \E r \in Outcomes(FirstNumber + Len(tracker)) :
          /\ answers' = Append(answers, r)
          /\ tracker' = IF Accepted(r)
                        THEN Append(tracker, [number |-> r.number,
                                              file |-> requests[Len(requests)].file,
                                              data |-> requests[Len(requests)].data])
                        ELSE tracker
          /\ Record(r)
    /\ UNCHANGED <<mat, past>>
    /\ UNCHANGED <<envChanges, envReads, reads,
                   requestsInstalled, dirExists, envToken, disk, writes, token,
                   issue_files, idx, previewed, response, issue_data, requests,
                   sleeps, summary>>

\* the pause made only after a created issue: "if success: time.sleep(1)"
SleepOnSuccessOnly ==
    /\ pc = "sleep"
    /\ sleeps' = IF create_issue(answers[Len(answers)]).success
                 THEN sleeps + 1 ELSE sleeps
    /\ idx' = idx + 1
    /\ pc' = "loop"
    /\ UNCHANGED <<mat, past>>
    /\ UNCHANGED <<envChanges, envReads, reads,
                   requestsInstalled, dirExists, envToken, disk, writes, token,
                   issue_files, previewed, response, issue_data, created,
                   failed, requests, answers, tracker, summary, exitCode, cause>>

\* a failed record is tried again after the pause: idx moves on only after
\* a created issue
SleepThenRetry ==
    /\ pc = "sleep"
    /\ sleeps' = sleeps + 1
    /\ idx' = IF create_issue(answers[Len(answers)]).success THEN idx + 1 ELSE idx
    /\ pc' = "loop"
    /\ UNCHANGED <<mat, past>>
    /\ UNCHANGED <<envChanges, envReads, reads,
                   requestsInstalled, dirExists, envToken, disk, writes, token,
                   issue_files, previewed, response, issue_data, created,
                   failed, requests, answers, tracker, summary, exitCode, cause>>

\* line 123
Sleep ==
    /\ pc = "sleep"
    /\ sleeps' = sleeps + 1
    /\ idx' = idx + 1
    /\ pc' = "loop"
    /\ UNCHANGED <<mat, past>>
    /\ UNCHANGED <<envChanges, envReads, reads,
                   requestsInstalled, dirExists, envToken, disk, writes, token,
                   issue_files, previewed, response, issue_data, created,
                   failed, requests, answers, tracker, summary, exitCode, cause>>

\* lines 125-151
Summary ==
    [total |-> Len(issue_files),
     created |-> Len(created),
     failed |-> Len(failed),
     createdLines |-> [i \in DOMAIN created |-> <<created[i][2], created[i][1]>>],
     failedLines |-> [i \in DOMAIN failed |-> <<failed[i][1], failed[i][2]>>],
     allCreated |-> failed = <<>>]

\* non-zero only when nothing at all was created
ExitAfterReportNoneCreated ==
    IF created = <<>> /\ failed # <<>> THEN Exit(1, "failed") ELSE Exit(0, "done")

\* non-zero also when nothing was created
ExitAfterReportNothingCreated ==
    IF failed # <<>> \/ created = <<>> THEN Exit(1, "failed") ELSE Exit(0, "done")

ExitAfterReport == IF failed # <<>> THEN Exit(1, "failed") ELSE Exit(0, "done")

\* the loop stops one record short
ReportOneShort ==
    /\ pc = "loop"
    /\ idx >= Len(issue_files)
    /\ summary' = <<Summary>>
    /\ ExitAfterReport
    /\ UNCHANGED <<mat, past>>
    /\ UNCHANGED <<envChanges, envReads, reads,
                   requestsInstalled, dirExists, envToken, disk, writes, token,
                   issue_files, idx, previewed, response, issue_data, created,
                   failed, requests, answers, tracker, sleeps>>

Report ==
    /\ pc = "loop"
    /\ idx > Len(issue_files)
    /\ summary' = <<Summary>>
    /\ ExitAfterReport
    /\ UNCHANGED <<mat, past>>
    /\ UNCHANGED <<envChanges, envReads, reads,
                   requestsInstalled, dirExists, envToken, disk, writes, token,
                   issue_files, idx, previewed, response, issue_data, created,
                   failed, requests, answers, tracker, sleeps>>

\* Another process (a materializer, an editor) rewrites, corrupts or removes a
\* file of the directory while main() is blocked at the prompt.  For what
\* main() does next, a write made later, before the loop opens the file, is
\* the same as this one, and a write after the loop has opened it is none.
ExternalWrite ==
    /\ pc = "prompt"
    /\ writes + envChanges < MaxWrites
    /\ writes' = writes + 1
    /\ \E f \in DOMAIN disk :
          \/ \E c \in Contents \ {disk[f]} : disk' = [disk EXCEPT ![f] = c]
          \/ disk' = [g \in DOMAIN disk \ {f} |-> disk[g]]
    /\ UNCHANGED <<mat, past>>
    /\ UNCHANGED <<envChanges, envReads, reads,
                   requestsInstalled, dirExists, envToken, pc, token,
                   issue_files, idx, previewed, response, issue_data, created,
                   failed, requests, answers, tracker, sleeps, summary,
                   exitCode, cause>>

\* GITHUB_TOKEN is set anew or unset in the environment while main() is
\* blocked at the prompt (a change made before line 27 runs is another
\* initial value).  Changes to the environment and to the directory share
\* the bound MaxWrites.
EnvChange ==
    /\ pc = "prompt"
    /\ writes + envChanges < MaxWrites
    /\ envChanges' = envChanges + 1
    /\ envToken' \in {NoToken, "ghp_B"} \ {envToken}
    /\ UNCHANGED <<mat, past>>
    /\ UNCHANGED <<envReads, reads, requestsInstalled, dirExists, disk, writes,
                   pc, token, issue_files, idx, previewed, response,
                   issue_data, created, failed, requests, answers, tracker,
                   sleeps, summary, exitCode, cause>>

Next ==
    \/ ImportRequests
    \/ CheckDir
    \/ GetToken
    \/ Discover
    \/ Preview
    \/ ShowPrompt
    \/ Answer
    \/ AnswerEOF
    \/ LoadIssue
    \/ Post
    \/ Return
    \/ Sleep
    \/ Report
    \/ ExternalWrite
    \/ EnvChange

Spec == Init /\ [][Next]_vars

-----------------------------------------------------------------------------
(* main() with the scheduling it runs under *)

\* the steps main() takes by itself: none of them blocks
MainStep ==
    \/ ImportRequests
    \/ CheckDir
    \/ GetToken
    \/ Discover
    \/ Preview
    \/ ShowPrompt
    \/ LoadIssue
    \/ Post
    \/ Sleep
    \/ Report

\* input() returns: the operator answers or closes the input
OperatorAnswers == Answer \/ AnswerEOF

\* A run in which every step that can be taken is taken in the end, the
\* operator answers the prompt in the end and every request comes back in
\* the end.  Other processes need never act.
LiveInit == Init /\ Cardinality(DOMAIN disk) <= MaxRunFiles

LiveSpec ==
    /\ LiveInit
    /\ [][Next]_vars
    /\ WF_vars(MainStep)
    /\ WF_vars(OperatorAnswers)
    /\ WF_vars(Return)

-----------------------------------------------------------------------------
(* main() run again *)

\* lines 153-154: the script is started again after a run has ended.  The
\* new process has the locals of a fresh main(); the directory, the
\* environment and the tracker are as the earlier run left them.  The
\* script writes nothing, so nothing of the earlier run reaches the new one;
\* past is kept for the properties only.
StartAgain ==
    /\ pc = "exited"
    /\ Len(past) < MaxReruns
    /\ past' = Append(past, [files |-> [i \in DOMAIN requests |-> requests[i].file],
                             reported |-> summary # <<>>])
    /\ pc' = "import"
    /\ envReads' = 0
    /\ reads' = <<>>
    /\ token' = NoToken
    /\ issue_files' = <<>>
    /\ idx' = 0
    /\ previewed' = <<>>
    /\ response' = NoResponse
    /\ issue_data' = ""
    /\ created' = <<>>
    /\ failed' = <<>>
    /\ requests' = <<>>
    /\ answers' = <<>>
    /\ sleeps' = 0
    /\ summary' = <<>>
    /\ exitCode' = 0
    /\ cause' = ""
    /\ UNCHANGED <<requestsInstalled, dirExists, envToken, envChanges, disk,
                   writes, tracker, mat>>

\* runs of main(), one after the other, over a directory and an environment
\* that no other process changes
RunsNext ==
    \/ ImportRequests
    \/ CheckDir
    \/ GetToken
    \/ Discover
    \/ Preview
    \/ ShowPrompt
    \/ Answer
    \/ AnswerEOF
    \/ LoadIssue
    \/ Post
    \/ Return
    \/ Sleep
    \/ Report
    \/ StartAgain

\* the first of the runs starts as any run does
RunsInit == Init /\ Cardinality(DOMAIN disk) <= MaxRunFiles

RunsSpec == RunsInit /\ [][RunsNext]_vars

-----------------------------------------------------------------------------
(* Properties *)

Range(q) == {q[i] : i \in DOMAIN q}
Yes == {<<121>>, <<89>>}
Answered == response \in Inputs
Exited == pc = "exited"

\* C1: no create-request is issued before the operator has answered the
\* prompt with y or Y; after any other answer the run has issued no
\* create-request and has exited with status 0.
C1_ConfirmationGatesRequests ==
    /\ (requests # <<>> \/ pc \in {"loop", "post", "await", "sleep"})
          => response \in Yes
    /\ (Answered /\ response \notin Yes)
          => requests = <<>> /\ tracker = <<>> /\ Exited /\ exitCode = 0

\* the operator declined a non-empty batch
C1_Witness ==
    /\ Exited /\ response = <<110>> /\ Len(previewed) >= 2 /\ requests = <<>>

\* C2: with GITHUB_TOKEN unset the run issues no create-request, never
\* shows the prompt, and, once it has ended, has a non-zero exit status.
C2_NoTokenNoRequests ==
    (envToken = NoToken /\ envChanges = 0) =>
        /\ requests = <<>>
        /\ pc \in {"import", "checkdir", "token", "exited"}
        /\ response = NoResponse
        /\ Exited => exitCode # 0

\* get_github_token ended the run although the directory holds records
C2_Witness ==
    /\ envToken = NoToken /\ Exited /\ cause = "notoken" /\ DOMAIN disk # {}

\* C3: without the github-issues directory the run ends with status 1
\* before any request, before any record is read and before the token is
\* looked at, whatever the token is.
C3_NoDirectoryAborts ==
    ~dirExists =>
        /\ requests = <<>>
        /\ previewed = <<>> /\ issue_files = <<>> /\ issue_data = ""
        /\ token = NoToken
        /\ pc \in {"import", "checkdir", "exited"}
        /\ Exited => exitCode = 1

\* the directory check ended a run that had a token
C3_Witness ==
    /\ ~dirExists /\ Exited /\ cause = "nodir" /\ envToken = "ghp_A"

\* the (phase, sequence) order of two files
KeyLess(f, g) == f.phase < g.phase \/ (f.phase = g.phase /\ f.seq < g.seq)

\* the file a name belongs to: (phase, sequence) read back from the name
FileOf(name) == CHOOSE f \in CandidateFiles : FileName(f) = name

\* C4: the create-requests of a run are issued in ascending (phase,
\* sequence) order of the files they are for.
C4_AscendingPhaseSequence ==
    \A i, j \in DOMAIN requests :
        i < j => KeyLess(FileOf(requests[i].file), FileOf(requests[j].file))

\* C5: once the summary is out, every discovered record has been the subject
\* of exactly one create-request, and no request was for anything else.
C5_ExactlyOnce ==
    summary # <<>> =>
        /\ \A f \in Range(issue_files) :
              Cardinality({i \in DOMAIN requests : requests[i].file = FileName(f)}) = 1
        /\ Len(requests) = Len(issue_files)
        /\ Len(answers) = Len(requests)

\* a reported batch of several records, one of which failed
C5_Witness ==
    /\ summary # <<>> /\ Len(issue_files) >= 2 /\ failed # <<>> /\ created # <<>>

\* the answers the submitter counts as created and as failed
Good(r) == r.kind = "http" /\ r.status = 201 /\ r.json
Bad(r) == r.kind = "exc" \/ r.status # 201 \/ ~r.json
GoodCount == Cardinality({i \in DOMAIN answers : Good(answers[i])})
BadCount == Cardinality({i \in DOMAIN answers : Bad(answers[i])})

\* C6: a failed attempt never ends the loop.  The step that records a
\* failure leaves the run at the pause with no exit status set, nothing
\* ends the run between the sending of a request and the end of the pause
\* that follows it, the pause hands over to the next record, and a run that
\* reports after a failure has attempted every record.
C6_LoopSurvivesFailure ==
    /\ [][/\ failed' # failed => pc' = "sleep" /\ exitCode' = exitCode
          /\ pc \in {"post", "await", "sleep"} => pc' # "exited"
          /\ (pc = "sleep" /\ pc' # "sleep") => pc' = "loop" /\ idx' = idx + 1
         ]_vars
    /\ [](summary # <<>> /\ failed # <<>>
            => Len(answers) = Len(issue_files))

\* the first record failed and a later one was attempted all the same
C6_Witness ==
    /\ Len(answers) >= 2 /\ Bad(answers[1]) /\ Good(answers[2])
    /\ summary # <<>>

\* C7: the summary states total N, created K and failed N-K, for N
\* discovered records of which K were answered with a well-formed 201, and
\* the exit status is 1 when N-K > 0.
C7_ReportCounts ==
    summary # <<>> =>
        /\ summary[1].total = Len(issue_files)
        /\ summary[1].total = Cardinality(Range(issue_files))
        /\ summary[1].created = GoodCount
        /\ summary[1].failed = summary[1].total - GoodCount
        /\ summary[1].failed = BadCount
        /\ Len(summary[1].createdLines) = GoodCount
        /\ Len(summary[1].failedLines) = BadCount
        /\ BadCount > 0 => Exited /\ exitCode = 1

\* three records, the first created and the other two not
C7_Witness ==
    /\ summary # <<>> /\ Len(issue_files) = 3 /\ GoodCount = 1
    /\ Good(answers[1]) /\ exitCode = 1

Cancelled == Answered /\ response \notin Yes
AllCreated == summary # <<>> /\ Len(created) = Len(issue_files)
SomeFailed == summary # <<>> /\ failed # <<>>
TokenWasMissing == requestsInstalled /\ dirExists /\ pc = "exited" /\ token = NoToken

\* C8 as claimed: a run that has ended has status 0 when the operator
\* cancelled or the whole batch was created, status 1 when the token or the
\* directory is missing or a submission failed, and a non-zero status in no
\* other situation.
C8_ExitStatusAsClaimed ==
    Exited =>
        /\ (Cancelled \/ AllCreated) => exitCode = 0
        /\ (TokenWasMissing \/ ~dirExists \/ SomeFailed) => exitCode = 1
        /\ exitCode # 0 => (TokenWasMissing \/ ~dirExists \/ SomeFailed)

\* C8 as amended: status 0 exactly when the operator cancelled or the whole
\* batch was created; status 1 exactly when the requests library cannot be
\* imported, the directory or the token is missing, a submission failed, or
\* an uncaught exception ended the run (a record that cannot be read, end of
\* input at the prompt).
C8_ExitStatus ==
    Exited =>
        /\ exitCode \in {0, 1}
        /\ exitCode = 0 <=> (Cancelled \/ AllCreated)
        /\ exitCode = 1 <=>
              \/ ~requestsInstalled
              \/ ~dirExists
              \/ TokenWasMissing
              \/ SomeFailed
              \/ (summary = <<>> /\ cause = "uncaught")

\* a record went missing in mid-batch: status 1 with no failed submission
C8_Witness ==
    /\ Exited /\ exitCode = 1 /\ cause = "uncaught" /\ created # <<>>
    /\ failed = <<>> /\ summary = <<>>

\* the entries of created and failed for a file name
CreatedFor(name) == {k \in DOMAIN created : created[k][1] = name}
FailedFor(name) == {k \in DOMAIN failed : failed[k][1] = name}
ErrorTexts == Messages \cup {UnknownError, JSONDecodeError, ConnectionError}

\* C9: every answered create-request has exactly one entry, in exactly one
\* of created and failed.  A well-formed 201 gives a created entry with the
\* number and URL the tracker assigned to that request; any other status,
\* an exception and a body that does not parse give a failed entry with an
\* error text.
C9_Classification ==
    \A i \in DOMAIN answers :
        LET name == requests[i].file
            r == answers[i]
        IN /\ Cardinality(CreatedFor(name)) + Cardinality(FailedFor(name)) = 1
           /\ Good(r) =>
                 /\ \E k \in CreatedFor(name) :
                       created[k] = <<name, r.number, HtmlUrl(r.number)>>
                 /\ \E t \in Range(tracker) : t.number = r.number /\ t.file = name
           /\ Bad(r) =>
                 \E k \in FailedFor(name) : failed[k][2] \in ErrorTexts

\* created, rejected, unparsable 201 and transport failure in one run
C9_Witness ==
    /\ Len(answers) = 3
    /\ Good(answers[1])
    /\ answers[2].kind = "http" /\ answers[2].status = 201 /\ ~answers[2].json
    /\ answers[3].kind = "exc"
    /\ Len(created) = 1 /\ Len(failed) = 2

Rejection(r) == r.kind = "http" /\ r.status # 201 /\ r.json /\ r.hasMessage

\* C10: in the summary, the failed list pairs the file name of every record
\* whose request was answered by a non-201 status and a body with a message
\* with that message, and every other record is listed according to its own
\* answer.
C10_RejectionMessage ==
    summary # <<>> =>
        \A i \in DOMAIN answers :
            LET name == requests[i].file
                r == answers[i]
            IN /\ Rejection(r) =>
                     /\ <<name, r.message>> \in Range(summary[1].failedLines)
                     /\ \A l \in Range(summary[1].failedLines) :
                           l[1] = name => l[2] = r.message
                     /\ \A l \in Range(summary[1].createdLines) : l[2] # name
               /\ Good(r) =>
                     /\ <<r.number, name>> \in Range(summary[1].createdLines)
                     /\ \A l \in Range(summary[1].failedLines) : l[1] # name

\* one record rejected with "validation failed" between two created ones
C10_Witness ==
    /\ summary # <<>> /\ Len(answers) = 3
    /\ Good(answers[1]) /\ Good(answers[3])
    /\ Rejection(answers[2]) /\ answers[2].message = "validation failed"


\* what create_issue's try block raised for an answer: requests.post itself,
\* or response.json() on a body that does not parse
ExceptionRaised(r) == r.kind = "exc" \/ ~r.json
ExceptionText(r) == IF r.kind = "exc" THEN r.message ELSE JSONDecodeError
CarriesMessage(r) == r.kind = "http" /\ r.json /\ r.hasMessage

\* the error text recorded for the i-th request, which failed
ErrorOf(i) == failed[CHOOSE k \in FailedFor(requests[i].file) : TRUE][2]

\* C11 as claimed: the error text of every failed result is the tracker's
\* message when the response carries one, and otherwise the text of the
\* exception that was raised.
C11_MessageOrExceptionAsClaimed ==
    \A i \in DOMAIN answers :
        Bad(answers[i]) =>
            IF CarriesMessage(answers[i])
            THEN ErrorOf(i) = answers[i].message
            ELSE /\ ExceptionRaised(answers[i])
                 /\ ErrorOf(i) = ExceptionText(answers[i])

\* C11 as amended: the error text of every failed result is the tracker's
\* message when the response carries one; the fixed text "Unknown error"
\* when a non-201 response has a body that parses and carries no message (no
\* exception is raised then); and otherwise the text of the exception that
\* was raised.
C11_MessageOrException ==
    \A i \in DOMAIN answers :
        Bad(answers[i]) =>
            /\ FailedFor(requests[i].file) # {}
            /\ IF CarriesMessage(answers[i])
               THEN ErrorOf(i) = answers[i].message
               ELSE IF ExceptionRaised(answers[i])
                    THEN ErrorOf(i) = ExceptionText(answers[i])
                    ELSE ErrorOf(i) = UnknownError

\* a rejection with a message, one without, and a transport failure
C11_Witness ==
    /\ Len(answers) = 3
    /\ CarriesMessage(answers[1])
    /\ Bad(answers[2]) /\ ~CarriesMessage(answers[2]) /\ ~ExceptionRaised(answers[2])
    /\ answers[3].kind = "exc"
    /\ Len(failed) = 3


AllGood == \A i \in DOMAIN answers : Good(answers[i])

\* C12: when every request was answered by a well-formed 201, the created
\* list of the summary has one line per record, in the order of the files,
\* each pairing the file's name with the number the tracker gave to the
\* request for that file; the failed list is empty and the counts are
\* created N, failed 0.
C12_AllCreatedInFileOrder ==
    (summary # <<>> /\ AllGood) =>
        /\ Len(summary[1].createdLines) = Len(issue_files)
        /\ \A i \in DOMAIN issue_files :
              /\ summary[1].createdLines[i] = <<answers[i].number, FileName(issue_files[i])>>
              /\ requests[i].file = FileName(issue_files[i])
              /\ tracker[i].file = requests[i].file
              /\ tracker[i].number = answers[i].number
              /\ answers[i].number = FirstNumber + i - 1
        /\ summary[1].failedLines = <<>>
        /\ summary[1].total = Len(issue_files)
        /\ summary[1].created = Len(issue_files)
        /\ summary[1].failed = 0

\* phase1-issue01, phase1-issue02, phase2-issue01 created as the tracker's
\* first three issues
C12_Witness ==
    /\ summary # <<>> /\ AllGood
    /\ issue_files = <<[phase |-> 1, seq |-> 1], [phase |-> 1, seq |-> 2],
                       [phase |-> 2, seq |-> 1]>>
    /\ [i \in 1..3 |-> summary[1].createdLines[i][1]]
          = <<FirstNumber, FirstNumber + 1, FirstNumber + 2>>
    /\ exitCode = 0


\* C13: at most one create-request is in flight, and that only while
\* requests.post is awaited; every request starts when all earlier ones have
\* come back and exactly as many pauses as earlier requests have been made,
\* so that one pause lies between a request's return and the next request,
\* whatever the request came back with.
C13_OneInFlightOnePause ==
    /\ [](/\ Len(requests) - Len(answers) \in {0, 1}
          /\ Len(requests) > Len(answers) <=> pc = "await"
          /\ sleeps = IF pc = "sleep" THEN Len(answers) - 1 ELSE Len(answers))
    /\ [][/\ requests' # requests
               => /\ Len(requests') = Len(requests) + 1
                  /\ Len(answers) = Len(requests)
                  /\ sleeps = Len(requests)
          /\ sleeps' \in {sleeps, sleeps + 1}
         ]_vars

\* the third request is in flight after a failed and a created one, each
\* followed by its pause
C13_Witness ==
    /\ pc = "await" /\ Len(requests) = 3 /\ sleeps = 2
    /\ Bad(answers[1]) /\ Good(answers[2])


IsPrefix(p, q) == Len(p) <= Len(q) /\ \A i \in DOMAIN p : p[i] = q[i]

\* C14: created and failed only grow, by one entry in one of them for each
\* request that comes back; no entry is removed or changed; at all times
\* len(created) + len(failed) is the number of requests that have come
\* back; and in the summary every discovered file name is in exactly one of
\* the two lists, once.
C14_ResultListsOnlyGrow ==
    /\ [][/\ IsPrefix(created, created') /\ IsPrefix(failed, failed')
          /\ Len(created') + Len(failed') =
                Len(created) + Len(failed) + (Len(answers') - Len(answers))
          /\ Len(answers') - Len(answers) \in {0, 1}
         ]_vars
    /\ [](Len(created) + Len(failed) = Len(answers))
    /\ [](summary # <<>> =>
            \A f \in Range(issue_files) :
                Cardinality({k \in DOMAIN summary[1].createdLines :
                                summary[1].createdLines[k][2] = FileName(f)})
                + Cardinality({k \in DOMAIN summary[1].failedLines :
                                  summary[1].failedLines[k][1] = FileName(f)}) = 1)

\* a summary over three records with two failures and one created issue
C14_Witness ==
    /\ summary # <<>> /\ Len(issue_files) = 3
    /\ Len(failed) = 2 /\ Len(created) = 1 /\ Bad(answers[1]) /\ Bad(answers[3])


ReadCount(f) == Cardinality({i \in DOMAIN reads : reads[i] = f})

C16_TokenReadOnce ==
    /\ [](/\ envReads <= 1
          /\ (requests # <<>> \/ response # NoResponse
                \/ pc \in {"discover", "preview", "prompt", "loop", "post",
                           "await", "sleep"})
                => envReads = 1 /\ ~TokenMissing(token)
          /\ \A i \in DOMAIN requests : requests[i].token = token)
    /\ [][/\ envReads' # envReads
               => /\ requests = <<>> /\ response = NoResponse
                  /\ pc' # "exited" => token' = envToken
          /\ envReads' = envReads => token' = token
         ]_vars

\* two requests sent with the token read at the start, after the variable
\* was unset
C16_Witness ==
    /\ Len(requests) = 2 /\ envChanges = 1 /\ envToken = NoToken
    /\ token = "ghp_A" /\ requests[2].token = "ghp_A"


\* C17: at every point of a run the requests issued so far are for the
\* first files of issue_files, in its order, one each; requests are only
\* ever added, and an issue the tracker has created is never removed from
\* it by the run, whatever fails or ends the run later.
C17_PrefixNoRollback ==
    /\ [](/\ Len(requests) <= Len(issue_files)
          /\ \A i \in DOMAIN requests : requests[i].file = FileName(issue_files[i])
          /\ \A t \in Range(tracker) :
                \E i \in DOMAIN requests : requests[i].file = t.file)
    /\ [][IsPrefix(requests, requests') /\ IsPrefix(tracker, tracker')]_vars

\* the run died on the third record after one created issue and one failure;
\* the created issue is still there
C17_Witness ==
    /\ Exited /\ cause = "uncaught" /\ Len(issue_files) = 3
    /\ Len(requests) = 2 /\ Good(answers[1]) /\ Bad(answers[2])
    /\ Len(tracker) = 1


\* C21: every create-request carries the title that the preview showed for
\* its file, whatever was written to the directory while the prompt was up.
C21_PayloadAsPreviewed ==
    \A i \in DOMAIN requests :
        \E p \in Range(previewed) :
            p[1] = requests[i].file /\ p[2] = requests[i].data


\* the submission loop can open and parse the file
Loadable(f) == f \in DOMAIN disk /\ disk[f] # NotJson
LoopAbort == Exited /\ cause = "uncaught" /\ response \in Yes
AcceptedCount == Cardinality({i \in DOMAIN answers : Accepted(answers[i])})

\* C22: a request is only ever made for a record the loop could open and
\* parse, and a summary only when it could for all of them.  A confirmed run
\* that an uncaught error has ended stands at a record that cannot be opened
\* or parsed: that record has no request and no entry in created or failed,
\* every earlier record and no later one has been attempted, there is no
\* summary, the status is 1, and every issue the tracker created is still
\* there.
C22_UnreadableRecordEndsRun ==
    /\ pc \in {"post", "await", "sleep"} => Loadable(issue_files[idx])
    /\ \A i \in DOMAIN requests : Loadable(issue_files[i])
    /\ summary # <<>> => \A f \in Range(issue_files) : Loadable(f)
    /\ LoopAbort =>
          /\ idx \in DOMAIN issue_files
          /\ ~Loadable(issue_files[idx])
          /\ Len(requests) = idx - 1
          /\ Len(answers) = idx - 1
          /\ Len(created) + Len(failed) = idx - 1
          /\ CreatedFor(FileName(issue_files[idx])) = {}
          /\ FailedFor(FileName(issue_files[idx])) = {}
          /\ summary = <<>>
          /\ exitCode = 1
          /\ Len(tracker) = AcceptedCount
          /\ \A k \in DOMAIN created :
                \E t \in Range(tracker) : t.number = created[k][2]

\* the second of three records was removed during the prompt; the first was
\* created and is still on the tracker, the third was never attempted
C22_Witness ==
    /\ LoopAbort /\ Len(issue_files) = 3 /\ idx = 2
    /\ issue_files[2] \notin DOMAIN disk
    /\ Len(created) = 1 /\ Len(tracker) = 1 /\ Len(requests) = 1


\* C23: when a record of the directory is unreadable, is not JSON or has no
\* title as the run starts, the run never shows the prompt, reads no answer
\* and issues no create-request; the preview stops at the first such record
\* and the run ends there with status 1 and no summary.
C23_BadRecordStopsPreview ==
    (writes = 0 /\ \E f \in DOMAIN disk : ~Readable(disk, f)) =>
        /\ pc \notin {"prompt", "loop", "post", "await", "sleep"}
        /\ response = NoResponse
        /\ requests = <<>> /\ tracker = <<>>
        /\ summary = <<>>
        /\ \A p \in Range(previewed) : p[2] \in Titles
        /\ Exited => exitCode = 1
        /\ (Exited /\ cause = "uncaught") =>
              /\ idx \in DOMAIN issue_files
              /\ ~Readable(disk, issue_files[idx])
              /\ Len(previewed) = idx - 1

\* two valid records were previewed and the third has no title
C23_Witness ==
    /\ Exited /\ cause = "uncaught" /\ response = NoResponse
    /\ Len(issue_files) = 3 /\ Len(previewed) = 2
    /\ disk[issue_files[3]] = NoTitle /\ requests = <<>>


\* C24: a request has an entry in created exactly when it was answered with
\* status 201 and a body that parses; a 201 whose body does not parse has an
\* entry in failed with the parser's error, though the tracker created the
\* issue; so created never has more entries than the tracker has created
\* issues.
C24_CreatedIffParsed201 ==
    /\ \A i \in DOMAIN answers :
          LET name == requests[i].file
              r == answers[i]
          IN /\ CreatedFor(name) # {} <=> (Accepted(r) /\ r.json)
             /\ (Accepted(r) /\ ~r.json) =>
                   /\ FailedFor(name) # {}
                   /\ ErrorOf(i) = JSONDecodeError
                   /\ \E t \in Range(tracker) : t.file = name
    /\ Len(created) <= Len(tracker)
    /\ Len(tracker) = AcceptedCount
    /\ summary # <<>> => summary[1].created <= Len(tracker)

\* the tracker created two issues and the summary reports one
C24_Witness ==
    /\ summary # <<>> /\ Len(tracker) = 2 /\ summary[1].created = 1
    /\ Accepted(answers[1]) /\ ~answers[1].json /\ Good(answers[2])


\* C28: the run goes on past the prompt exactly when the answer is "y" or
\* "Y"; after any other answer (the empty one, "n", "yes", " y") it has
\* ended with status 0, cancelled, with no create-request and no summary.
C28_OnlyYProceeds ==
    Answered =>
        IF response \in {<<121>>, <<89>>}
        THEN /\ cause # "cancelled"
             /\ pc \in {"loop", "post", "await", "sleep", "exited"}
             /\ (Exited /\ summary = <<>>) => cause = "uncaught"
        ELSE /\ Exited /\ cause = "cancelled" /\ exitCode = 0
             /\ requests = <<>> /\ tracker = <<>> /\ summary = <<>>
             /\ sleeps = 0

\* the answer " y" has cancelled a run over three previewed records
C28_Witness ==
    /\ Exited /\ cause = "cancelled" /\ response = <<32, 121>>
    /\ Len(previewed) = 3 /\ exitCode = 0 /\ requests = <<>>


\* the directory existed, the token was found and the glob matched nothing
NothingDiscovered ==
    /\ envReads = 1 /\ ~TokenMissing(token) /\ pc # "discover"
    /\ issue_files = <<>>

\* C29: with the directory there and no record in it, a run without a token
\* ends with status 1 before the prompt; a run with a token shows the prompt
\* and goes on only after "y" or "Y"; such a run previews nothing, issues no
\* create-request, makes no pause, and a confirmed one reports total 0,
\* created 0, failed 0 and ends with status 0.
C29_EmptyCollection ==
    /\ (dirExists /\ DOMAIN disk = {} /\ TokenMissing(envToken) /\ envChanges = 0)
          => /\ pc \in {"import", "checkdir", "token", "exited"}
             /\ response = NoResponse
             /\ Exited => exitCode = 1
    /\ NothingDiscovered =>
          /\ dirExists
          /\ previewed = <<>> /\ reads = <<>>
          /\ requests = <<>> /\ tracker = <<>> /\ sleeps = 0
          /\ pc \in {"preview", "prompt", "loop", "exited"}
          /\ pc = "loop" => response \in Yes
          /\ summary # <<>> =>
                /\ response \in Yes
                /\ summary[1].total = 0
                /\ summary[1].created = 0
                /\ summary[1].failed = 0
                /\ summary[1].allCreated
                /\ Exited /\ exitCode = 0
          /\ (Exited /\ response \in Yes) => summary # <<>>

\* a confirmed run over an empty directory has reported and ended
C29_Witness ==
    /\ NothingDiscovered /\ Exited /\ response = <<121>> /\ summary # <<>>
    /\ exitCode = 0 /\ dirExists /\ token = "ghp_A"


-----------------------------------------------------------------------------
(* Termination, checked under LiveSpec *)

\* C27: every run ends.  A confirmed run that has ended and whose N records
\* could all be loaded has issued exactly N create-requests, all answered,
\* made exactly N pauses and printed the summary; and the summary is printed
\* in the step that ends the run, when the pause after the last record is
\* over.
C27_Terminates ==
    /\ <>Exited
    /\ []((Exited /\ response \in Yes /\ \A f \in Range(issue_files) : Loadable(f))
            => /\ summary # <<>>
               /\ Len(requests) = Len(issue_files)
               /\ Len(answers) = Len(issue_files)
               /\ sleeps = Len(issue_files))
    /\ [][summary' # summary
            => /\ pc = "loop" /\ pc' = "exited"
               /\ sleeps = Len(issue_files) /\ sleeps' = sleeps
               /\ Len(answers) = Len(issue_files)
         ]_vars

\* a confirmed run over two records has ended after two requests and two
\* pauses, one record having failed
C27_Witness ==
    /\ Exited /\ response \in Yes /\ Len(issue_files) = 2
    /\ Len(requests) = 2 /\ sleeps = 2 /\ summary # <<>> /\ Len(failed) = 1

-----------------------------------------------------------------------------
(* Properties of repeated runs, checked under RunsSpec *)

RequestsFor(files, f) == Cardinality({i \in DOMAIN files : files[i] = FileName(f)})
ThisRun == [i \in DOMAIN requests |-> requests[i].file]

\* C25: when a confirmed run has reported and the run before it, over the
\* same N records, was confirmed and reported too, each of the two has
\* issued N create-requests, 2N in all, one for every record in each run,
\* also for the records whose issue the earlier run created; and a run
\* starts with nothing of the earlier one but what the tracker holds.
C25_NoMemoryOfEarlierRuns ==
    /\ (past # <<>> /\ past[Len(past)].reported /\ summary # <<>>) =>
          LET before == past[Len(past)].files
              N == Cardinality(DOMAIN disk)
          IN /\ Len(before) = N /\ Len(ThisRun) = N
             /\ Len(before) + Len(ThisRun) = 2 * N
             /\ \A f \in DOMAIN disk :
                   RequestsFor(before, f) = 1 /\ RequestsFor(ThisRun, f) = 1
             /\ ThisRun = before
    /\ (past # <<>> /\ pc = "import") =>
          /\ issue_files = <<>> /\ created = <<>> /\ failed = <<>>
          /\ requests = <<>> /\ token = NoToken /\ response = NoResponse

\* a second run over two records, both of them created by the first run,
\* has submitted both again
C25_Witness ==
    /\ Len(past) = 1 /\ past[1].reported /\ summary # <<>>
    /\ Cardinality(DOMAIN disk) = 2 /\ Len(requests) = 2
    /\ \A f \in DOMAIN disk :
          \E i \in DOMAIN tracker :
              tracker[i].file = FileName(f) /\ tracker[i].number < FirstNumber + 2
    /\ Len(tracker) >= 3


-----------------------------------------------------------------------------
(* Properties of the materializer scripts, checked under MatSpec *)

\* every definition of the batch, as (script, position in its list)
AllDefs == {p \in Scripts \X (1..Len(issues)) : p[2] <= Len(IssuesOf(p[1]))}
DefOf(p) == IssuesOf(p[1])[p[2]]
DefNames == {IssueFile(DefOf(p)) : p \in AllDefs}
RanBoth ==
    /\ mat.pc = "idle"
    /\ \A s \in Scripts : \E k \in DOMAIN mat.done : mat.done[k].script = s

\* C18: the file names of the 25 definitions of the two scripts are
\* pairwise distinct; once both scripts have run, the directory holds, for
\* every definition, one file with that definition's document under the
\* definition's name, and nothing else that was not there before; and no
\* step replaces a document written for one definition by another.
C18_OneFilePerDefinition ==
    /\ [](RanBoth =>
            /\ Cardinality(AllDefs) = Len(issues) + Len(additional_issues)
            /\ Cardinality(DefNames) = Cardinality(AllDefs)
            /\ \A p \in AllDefs :
                  /\ IssueFile(DefOf(p)) \in DOMAIN disk
                  /\ disk[IssueFile(DefOf(p))] = <<IssueData(p[1], DefOf(p))>>
            /\ DOMAIN disk = DefNames \cup DOMAIN mat.start.disk)
    /\ [][\A n \in DOMAIN disk :
             /\ n \in DOMAIN disk'
             /\ disk'[n] # disk[n] => disk[n] = Stale
         ]_vars

\* both scripts have run once on a directory that did not exist
C18_Witness ==
    /\ RanBoth /\ Len(mat.done) = 2 /\ ~mat.start.dirExists
    /\ Cardinality(DOMAIN disk) = 25

\* C19: a run of a script that follows a run of the same script leaves the
\* directory as that run left it; and every run of a script, whatever it
\* found (no directory, an empty one, stale or earlier files), leaves the
\* directory in existence with exactly the script's documents under the
\* script's names.
C19_MaterializationIdempotent ==
    /\ \A k \in DOMAIN mat.done :
          /\ \A i \in DOMAIN IssuesOf(mat.done[k].script) :
                LET d == IssuesOf(mat.done[k].script)[i]
                IN /\ IssueFile(d) \in DOMAIN mat.done[k].disk
                   /\ mat.done[k].disk[IssueFile(d)]
                         = <<IssueData(mat.done[k].script, d)>>
          /\ (k > 1 /\ mat.done[k - 1].script = mat.done[k].script)
                => mat.done[k].disk = mat.done[k - 1].disk
    /\ mat.done # <<>> => dirExists

\* create_github_issues.py has run twice in a row over a stale file of its
\* own name
C19_Witness ==
    /\ Len(mat.done) = 2
    /\ mat.done[1].script = "create_github_issues"
    /\ mat.done[2].script = "create_github_issues"
    /\ IssueFile(issues[1]) \in DOMAIN mat.start.disk

\* the file names a script writes, and the definition behind a name
NamesOf(s) == {IssueFile(IssuesOf(s)[i]) : i \in DOMAIN IssuesOf(s)}
DefAt(n) == CHOOSE p \in AllDefs : IssueFile(DefOf(p)) = n

\* the directory once both scripts have run over the directory d
Materialized(d) ==
    [n \in DOMAIN d \cup DefNames |->
        IF n \in DefNames THEN <<IssueData(DefAt(n)[1], DefOf(DefAt(n)))>>
        ELSE d[n]]

\* C26: the two scripts write disjoint sets of file names, 14 and 11 of
\* them, for phases 1-2, issues 1-14 and phases 3-4, issues 15-25; whenever
\* both have run, in whatever order and however often, the directory is the
\* same: the 25 files of the 25 definitions, next to whatever else was there
\* before; and a step of one script never changes or removes a file of the
\* other script's names.
C26_DisjointOrderIndependent ==
    /\ [](/\ NamesOf("create_github_issues") \cap NamesOf("generate_all_issues") = {}
          /\ Cardinality(NamesOf("create_github_issues")) = 14
          /\ Cardinality(NamesOf("generate_all_issues")) = 11
          /\ \A i \in DOMAIN issues :
                issues[i].phase \in 1..2 /\ issues[i].number \in 1..14
          /\ \A i \in DOMAIN additional_issues :
                /\ additional_issues[i].phase \in 3..4
                /\ additional_issues[i].number \in 15..25)
    /\ [](RanBoth =>
            /\ disk = Materialized(mat.start.disk)
            /\ Cardinality(DOMAIN disk \cap DefNames) = 25
            /\ Cardinality(DOMAIN disk \ DOMAIN mat.start.disk)
                  = 25 - Cardinality(DOMAIN mat.start.disk \cap DefNames)
            /\ mat.start.disk = <<>> => Cardinality(DOMAIN disk) = 25)
    /\ [][\A s \in Scripts \ {mat.script} : \A n \in NamesOf(s) :
             /\ n \in DOMAIN disk => n \in DOMAIN disk' /\ disk'[n] = disk[n]
             /\ n \notin DOMAIN disk => n \notin DOMAIN disk'
         ]_vars

\* generate_all_issues.py, create_github_issues.py and generate_all_issues.py
\* again have run on a directory that was not there
C26_Witness ==
    /\ mat.pc = "idle" /\ Len(mat.done) = 3 /\ ~mat.start.dirExists
    /\ mat.done[1].script = "generate_all_issues"
    /\ mat.done[2].script = "create_github_issues"
    /\ mat.done[3].script = "generate_all_issues"
    /\ Cardinality(DOMAIN disk) = 25
    /\ mat.done[2].disk = mat.done[3].disk

\* C20: after one run of either script on an empty or absent directory, the
\* directory holds the records of all 25 issues.
C20_EachScriptGeneratesAll ==
    (mat.pc = "idle" /\ Len(mat.done) = 1 /\ mat.start.disk = <<>>) =>
        /\ \A p \in AllDefs : IssueFile(DefOf(p)) \in DOMAIN disk
        /\ Cardinality(DOMAIN disk) = Len(issues) + Len(additional_issues)

====
